---- MODULE Spec2Model ----
(***************************************************************************)
(* Model of src/main.py: a FastAPI service with three handlers,            *)
(*   GET  /          main            (the upload form)                     *)
(*   POST /upload    upload_file     (copy the uploaded stream to a file)  *)
(*   GET  /download  download_image  (FileResponse of a stored file)       *)
(* over the file system below the process working directory.              *)
(*                                                                         *)
(* Contents are sequences of bytes; sizes are scaled: one model byte       *)
(* stands for one copy buffer of the real system, and MAX_FILE_SIZE is     *)
(* scaled with it so that oversized contents exist within MaxLen.          *)
(***************************************************************************)
EXTENDS Integers, Sequences, FiniteSets, TLC

\* ------------------------------------------------------------- bounds
MaxLen == 2        \* longest uploaded content, in model bytes
NumBytes == 2      \* byte values 1..NumBytes an uploaded content is made of
ChunkSize == 1     \* bytes moved per read/write call (shutil.COPY_BUFSIZE,
                   \* FileResponse.chunk_size), scaled
NumWorkers == 2    \* server processes sharing the storage directory

\* ------------------------------------------------- program constants
UPLOAD_DIR == <<"uploads">>
ALLOWED_EXTENSIONS == {"png", "jpg", "jpeg", "gif", "webp"}
\* 10 MiB in the source, here in model bytes (see the scaling above).
MAX_FILE_SIZE == 1

\* ------------------------------------------------- the environment
\* The working directory of the process and the directories that exist; the
\* program creates uploads/ at start-up and never another directory.
Cwd == <<"srv">>
Dirs == {<< >>, Cwd, Cwd \o UPLOAD_DIR}
NoPath == <<"<enoent>">>
NoFile == <<-1>>
\* What the file next to uploads/ holds before any request.
MainPy == <<7>>

\* Client-supplied filenames, as their path segments.
Plain == {<<"a.png">>, <<"b.exe">>}
Tracked == <<"a.png">>
Alias == <<"..", "uploads", "a.png">>
Outside == <<"..", "main.py">>
Names == Plain \cup {Alias, Outside}
\* The names the clients upload under, and those of overlapping requests.
UploadNames == Plain \cup {Alias}
RaceNames == {Tracked}

Min(a, b) == IF a < b THEN a ELSE b

Fill(b, n) == [i \in 1..n |-> b]
Contents == {<< >>} \cup {Fill(b, n) : b \in 1..NumBytes, n \in 1..MaxLen}

ExtOf(n) ==
  LET s == n[Len(n)]
  IN  CASE s = "a.png" -> "png" [] s = "b.exe" -> "exe" [] s = "main.py" -> "py"
        [] OTHER -> ""

\* ------------------------------------------------- paths
\* Variant of Join that keeps only the last segment of the client's name.
JoinBasename(dir, filename) ==
  IF filename = << >> THEN dir ELSE Append(dir, filename[Len(filename)])

\* pathlib's `/`: an absolute right operand replaces the left one.
Join(dir, filename) ==
  IF filename # << >> /\ Head(filename) = "/" THEN filename ELSE dir \o filename

\* The operating system's walk of a path: every component walked through must
\* be an existing directory; ".." steps to the parent, "." stays.
RECURSIVE Walk(_, _)
Walk(cur, segs) ==
  IF segs = << >> THEN cur
  ELSE IF cur \notin Dirs THEN NoPath
  ELSE LET s == Head(segs)
           nxt == IF s = "." THEN cur
                  ELSE IF s = ".."
                       THEN (IF cur = << >> THEN cur ELSE SubSeq(cur, 1, Len(cur) - 1))
                       ELSE Append(cur, s)
       IN  Walk(nxt, Tail(segs))

Resolve(path) ==
  IF path # << >> /\ Head(path) = "/" THEN Walk(<< >>, Tail(path)) ELSE Walk(Cwd, path)

\* file_path = UPLOAD_DIR / filename, as the operating system resolves it.
FilePath(filename) == Resolve(Join(UPLOAD_DIR, filename))

Files == {FilePath(n) : n \in Names} \ (Dirs \cup {NoPath})

InStorage(p) == Len(p) = Len(Cwd \o UPLOAD_DIR) + 1
                /\ SubSeq(p, 1, Len(p) - 1) = Cwd \o UPLOAD_DIR

\* ------------------------------------------------- file operations
\* Variant of OpenWb that opens without truncating (as "r+b" or "ab" would).
OpenNoTrunc(f) == IF f = NoFile THEN << >> ELSE f

\* open("wb"): the file is created or truncated to length 0.
OpenWb(f) == << >>

\* Variant of WriteAt that writes every chunk at the start of the file.
WriteAtStart(f, off, chunk) == chunk \o SubSeq(f, Len(chunk) + 1, Len(f))

\* A write() of `chunk` at the descriptor's own offset `off`; an offset past
\* the end of the file leaves a hole that reads as zero bytes.
WriteAt(f, off, chunk) ==
  LET padded == IF Len(f) < off THEN f \o Fill(0, off - Len(f)) ELSE f
  IN  SubSeq(padded, 1, off) \o chunk
        \o SubSeq(padded, off + Len(chunk) + 1, Len(padded))

\* A read() of at most n bytes at offset `off`.
ReadAt(f, off, n) == SubSeq(f, off + 1, Min(Len(f), off + n))

\* ------------------------------------------------- state
VARIABLES
  fs,       \* the files: path -> content, or NoFile
  req,      \* the requests in flight, one record per slot
  ups,      \* sequential client: the last uploads of Tracked it got answered
  touched   \* sequential client: an upload under another name has since
            \* opened Tracked's file

vars == <<fs, req, ups, touched>>

\* Two request slots: what the overlap of two requests needs.
Req == {1, 2}
Workers == 1..NumWorkers

\* The HTML of main(): the form and its file input.
FormHtml == [action |-> "/upload", method |-> "post",
             enctype |-> "multipart/form-data", input |-> "file"]
NoPage == [action |-> "", method |-> "", enctype |-> "", input |-> ""]

Idle == [kind |-> "idle", name |-> << >>, content |-> << >>, worker |-> 0,
         pc |-> "idle", off |-> 0, size |-> 0, body |-> << >>, status |-> 0,
         fname |-> << >>, page |-> NoPage, solo |-> TRUE, snap |-> NoFile]

Init ==
  /\ fs = [p \in Files |-> IF InStorage(p) THEN NoFile ELSE MainPy]
  /\ req = [r \in Req |-> Idle]
  /\ ups = << >>
  /\ touched = FALSE

\* An upload handler between its open and its close, on path p.
Writing(q, p) == q.kind = "upload" /\ q.pc = "copy" /\ FilePath(q.name) = p
\* A download between its stat and its last read, on path p.
Reading(q, p) == q.kind = "download" /\ q.pc = "read" /\ FilePath(q.name) = p

\* ------------------------------------------------- requests
\* A request arrives; the framework has parsed it and is about to call the
\* handler, an upload's in one of the server processes.
StartForm(r) ==
  /\ req[r].pc = "idle"
  /\ req' = [req EXCEPT ![r] = [Idle EXCEPT !.kind = "form", !.pc = "called"]]
  /\ UNCHANGED <<fs, ups, touched>>

StartDownload(r, N) ==
  /\ req[r].pc = "idle"
  /\ \E n \in N :
       req' = [req EXCEPT ![r] =
                 [Idle EXCEPT !.kind = "download", !.name = n, !.pc = "called"]]
  /\ UNCHANGED <<fs, ups, touched>>

StartUpload(r, N, W) ==
  /\ req[r].pc = "idle"
  /\ \E n \in N, c \in Contents, w \in W :
       req' = [req EXCEPT ![r] =
                 [Idle EXCEPT !.kind = "upload", !.name = n, !.content = c,
                              !.worker = w, !.pc = "called"]]
  /\ UNCHANGED <<fs, ups, touched>>

\* Variant of main whose form posts to another path.
mainOtherAction(r) ==
  /\ req[r].kind = "form" /\ req[r].pc = "called"
  /\ req' = [req EXCEPT ![r].pc = "done", ![r].status = 200,
                        ![r].page = [FormHtml EXCEPT !.action = "/"]]
  /\ UNCHANGED <<fs, ups, touched>>

\* GET /
main(r) ==
  /\ req[r].kind = "form" /\ req[r].pc = "called"
  /\ req' = [req EXCEPT ![r].pc = "done", ![r].status = 200, ![r].page = FormHtml]
  /\ UNCHANGED <<fs, ups, touched>>

\* Variant of UploadOpen with the declared limits wired in: a name whose
\* extension is not allowed, or a content over MAX_FILE_SIZE, is rejected.
UploadOpenValidated(r) ==
  LET q == req[r]
      p == FilePath(q.name)
  IN  /\ q.kind = "upload" /\ q.pc = "called"
      /\ \A o \in Req \ {r} :
           ~(req[o].kind = "upload" /\ req[o].pc = "copy" /\ req[o].worker = q.worker)
      /\ IF ExtOf(q.name) \notin ALLOWED_EXTENSIONS \/ Len(q.content) > MAX_FILE_SIZE
         THEN /\ req' = [req EXCEPT ![r].pc = "done", ![r].status = 400]
              /\ UNCHANGED fs
         ELSE IF p \in Files
              THEN /\ fs' = [fs EXCEPT ![p] = << >>]
                   /\ req' = [req EXCEPT ![r].pc = "copy", ![r].off = 0]
              ELSE /\ req' = [req EXCEPT ![r].pc = "done", ![r].status = 500]
                   /\ UNCHANGED fs
      /\ UNCHANGED <<ups, touched>>

\* POST /upload, up to the open: upload_file is a coroutine that never awaits,
\* so within one server process no other upload_file runs between its open
\* and its return.
UploadOpen(r) ==
  LET q == req[r]
      p == FilePath(q.name)
  IN  /\ q.kind = "upload" /\ q.pc = "called"
      /\ \A o \in Req \ {r} :
           ~(req[o].kind = "upload" /\ req[o].pc = "copy" /\ req[o].worker = q.worker)
      /\ IF p \in Files
         THEN /\ fs' = [fs EXCEPT ![p] = OpenWb(fs[p])]
              /\ req' = [o \in Req |->
                   IF o = r
                   THEN [q EXCEPT !.pc = "copy", !.off = 0,
                                  !.solo = \A x \in Req \ {r} : ~Writing(req[x], p)]
                   ELSE IF Writing(req[o], p) \/ Reading(req[o], p)
                        THEN [req[o] EXCEPT !.solo = FALSE]
                        ELSE req[o]]
         ELSE /\ req' = [req EXCEPT ![r].pc = "done", ![r].status = 500]
              /\ UNCHANGED fs
      /\ UNCHANGED <<ups, touched>>

\* One round of shutil.copyfileobj: read a chunk of the upload, write it.
UploadWrite(r) ==
  LET q == req[r]
      p == FilePath(q.name)
      chunk == ReadAt(q.content, q.off, ChunkSize)
  IN  /\ q.kind = "upload" /\ q.pc = "copy" /\ q.off < Len(q.content)
      /\ fs' = [fs EXCEPT ![p] = WriteAt(fs[p], q.off, chunk)]
      /\ req' = [req EXCEPT ![r].off = q.off + Len(chunk)]
      /\ UNCHANGED <<ups, touched>>

\* Variant of UploadWriteFail that removes the partial file on failure.
UploadWriteFailCleanup(r) ==
  LET q == req[r]
      p == FilePath(q.name)
  IN  /\ q.kind = "upload" /\ q.pc = "copy" /\ q.off < Len(q.content)
      /\ fs' = [fs EXCEPT ![p] = NoFile]
      /\ req' = [req EXCEPT ![r].pc = "done", ![r].status = 500]
      /\ UNCHANGED <<ups, touched>>

\* The write fails (disk full, I/O error) after k bytes of the chunk; the
\* exception leaves the `with` block, which closes the file, and the
\* framework answers with a server error.
UploadWriteFail(r) ==
  LET q == req[r]
      p == FilePath(q.name)
      chunk == ReadAt(q.content, q.off, ChunkSize)
  IN  /\ q.kind = "upload" /\ q.pc = "copy" /\ q.off < Len(q.content)
      /\ \E k \in 0..(Len(chunk) - 1) :
           /\ fs' = [fs EXCEPT ![p] = WriteAt(fs[p], q.off, SubSeq(chunk, 1, k))]
           /\ req' = [req EXCEPT ![r].pc = "done", ![r].status = 500,
                                 ![r].off = q.off + k]
      /\ UNCHANGED <<ups, touched>>

\* The copy is over: the file is closed and the confirmation returned.
UploadReturn(r) ==
  LET q == req[r]
  IN  /\ q.kind = "upload" /\ q.pc = "copy" /\ q.off = Len(q.content)
      /\ req' = [req EXCEPT ![r].pc = "done", ![r].status = 200,
                            ![r].fname = q.name]
      /\ UNCHANGED <<fs, ups, touched>>

\* GET /download: FileResponse stats the path when the response starts; a
\* path that is no regular file raises RuntimeError, which the framework
\* answers with a server error.
DownloadStat(r) ==
  LET q == req[r]
      p == FilePath(q.name)
  IN  /\ q.kind = "download" /\ q.pc = "called"
      /\ IF p \in Files /\ fs[p] # NoFile
         THEN req' = [req EXCEPT ![r].pc = "read", ![r].status = 200,
                                 ![r].size = Len(fs[p]), ![r].off = 0,
                                 ![r].fname = q.name, ![r].snap = fs[p],
                                 ![r].solo = \A x \in Req : ~Writing(req[x], p)]
         ELSE req' = [req EXCEPT ![r].pc = "done", ![r].status = 500]
      /\ UNCHANGED <<fs, ups, touched>>

\* Variant of DownloadRead that removes the file once it is served.
DownloadReadOnce(r) ==
  LET q == req[r]
      p == FilePath(q.name)
      chunk == ReadAt(fs[p], q.off, ChunkSize)
  IN  /\ q.kind = "download" /\ q.pc = "read"
      /\ req' = [req EXCEPT ![r].body = q.body \o chunk,
                            ![r].off = q.off + Len(chunk),
                            ![r].pc = IF Len(chunk) < ChunkSize THEN "done" ELSE "read"]
      /\ fs' = IF Len(chunk) < ChunkSize THEN [fs EXCEPT ![p] = NoFile] ELSE fs
      /\ UNCHANGED <<ups, touched>>

\* Variant of DownloadRead that ends the body after the first chunk.
DownloadReadShort(r) ==
  LET q == req[r]
      p == FilePath(q.name)
      chunk == ReadAt(fs[p], q.off, ChunkSize)
  IN  /\ q.kind = "download" /\ q.pc = "read"
      /\ req' = [req EXCEPT ![r].body = q.body \o chunk,
                            ![r].off = q.off + Len(chunk), ![r].pc = "done"]
      /\ UNCHANGED <<fs, ups, touched>>

\* FileResponse reads the file chunk by chunk and sends each chunk; a short
\* chunk ends the body.
DownloadRead(r) ==
  LET q == req[r]
      p == FilePath(q.name)
      chunk == ReadAt(fs[p], q.off, ChunkSize)
  IN  /\ q.kind = "download" /\ q.pc = "read"
      /\ req' = [req EXCEPT ![r].body = q.body \o chunk,
                            ![r].off = q.off + Len(chunk),
                            ![r].pc = IF Len(chunk) < ChunkSize THEN "done" ELSE "read"]
      /\ UNCHANGED <<fs, ups, touched>>

\* The client has its response; the slot is free again.
Receive(r) ==
  /\ req[r].pc = "done"
  /\ req' = [req EXCEPT ![r] = Idle]
  /\ UNCHANGED <<fs, ups, touched>>

\* The sequential client has its response, and remembers what it uploaded
\* under the name Tracked.
ReceiveRemember(r) ==
  LET q == req[r]
  IN  /\ q.pc = "done"
      /\ req' = [req EXCEPT ![r] = Idle]
      /\ IF q.kind = "upload" /\ q.name = Tracked
         THEN /\ ups' = (IF Len(ups) < 2 THEN ups ELSE Tail(ups))
                          \o <<[content |-> q.content, status |-> q.status]>>
              /\ touched' = FALSE
         ELSE IF q.kind = "upload" /\ FilePath(q.name) = FilePath(Tracked)
              THEN touched' = TRUE /\ UNCHANGED ups
              ELSE UNCHANGED <<ups, touched>>
      /\ UNCHANGED fs

\* Any number of clients, requests overlapping.
Next ==
  \E r \in Req :
    \/ StartForm(r)
    \/ StartDownload(r, RaceNames)
    \/ StartUpload(r, RaceNames, Workers)
    \/ main(r)
    \/ UploadOpen(r)
    \/ UploadWrite(r)
    \/ UploadWriteFail(r)
    \/ UploadReturn(r)
    \/ DownloadStat(r)
    \/ DownloadRead(r)
    \/ Receive(r)

Spec == Init /\ [][Next]_vars

\* One client that sends a request only after the response to the last one.
SeqNext ==
  \/ StartForm(1)
  \/ StartDownload(1, Names)
  \/ StartUpload(1, UploadNames, {1})
  \/ main(1)
  \/ UploadOpen(1)
  \/ UploadWrite(1)
  \/ UploadWriteFail(1)
  \/ UploadReturn(1)
  \/ DownloadStat(1)
  \/ DownloadRead(1)
  \/ ReceiveRemember(1)

SeqSpec == Init /\ [][SeqNext]_vars

\* ------------------------------------------------- properties
Last(s) == s[Len(s)]
StrictPrefix(a, b) == Len(a) < Len(b) /\ a = SubSeq(b, 1, Len(a))
Mixed(b) == \E i, j \in DOMAIN b : b[i] # b[j]
TrackedFile == Cwd \o UPLOAD_DIR \o Tracked
DoneDownload(r, n) ==
  req[r].kind = "download" /\ req[r].pc = "done" /\ req[r].name = n
DoneUpload(r) == req[r].kind = "upload" /\ req[r].pc = "done"

\* C1 (as stated): once the sequential client has completed an upload of
\* (Tracked, X) and no later upload under the name Tracked, a download of Tracked
\* answers 200 with exactly X, whatever was uploaded under other names since.
C1_RoundTrip ==
  (DoneDownload(1, Tracked) /\ ups # << >> /\ Last(ups).status = 200)
    => (req[1].status = 200 /\ req[1].body = Last(ups).content)

\* C2: after two completed uploads of Tracked in a row, X1 then X2, with no
\* upload to that file since, a download of Tracked answers 200 with exactly
\* X2, its length that of X2, and the file holds exactly X2.
C2_Overwrite ==
  (DoneDownload(1, Tracked) /\ Len(ups) = 2 /\ ~touched
     /\ ups[1].status = 200 /\ ups[2].status = 200)
    => /\ req[1].status = 200
       /\ req[1].body = ups[2].content
       /\ req[1].size = Len(ups[2].content)
       /\ fs[TrackedFile] = ups[2].content

\* C2 witness: the second content is shorter than the first and the download
\* returned it.
C2_Witness ==
  /\ DoneDownload(1, Tracked) /\ Len(ups) = 2 /\ ~touched
  /\ ups[1].status = 200 /\ ups[2].status = 200
  /\ Len(ups[2].content) < Len(ups[1].content)
  /\ req[1].body = ups[2].content

\* C3 (as stated): a download of a name with no stored file answers 404.
C3_NotFound ==
  \A r \in Req :
    (req[r].kind = "download" /\ req[r].pc = "done"
       /\ FilePath(req[r].name) \in Files /\ fs[FilePath(req[r].name)] = NoFile)
      => req[r].status = 404

\* C4: every answer of the form endpoint is a 200 with the fixed form: action
\* /upload, multipart encoding, file input named `file`.
C4_Form ==
  \A r \in Req :
    (req[r].kind = "form" /\ req[r].pc = "done")
      => /\ req[r].status = 200
         /\ req[r].page.action = "/upload"
         /\ req[r].page.method = "post"
         /\ req[r].page.enctype = "multipart/form-data"
         /\ req[r].page.input = "file"

\* C4 witness: the form is served while a file is stored and another request
\* is in the middle of an upload.
C4_Witness ==
  \E r, o \in Req :
    /\ req[r].kind = "form" /\ req[r].pc = "done" /\ req[r].status = 200
    /\ req[o].kind = "upload" /\ req[o].pc = "copy" /\ req[o].off > 0

\* C5: an answered upload was never rejected by validation: its status is 200,
\* or 500 after a failed write; with 200 the file holds exactly the content and
\* the answer carries the client's name verbatim, whatever the extension and
\* the size.
C5_NoValidation ==
  \A r \in Req :
    DoneUpload(r)
      => /\ req[r].status \in {200, 500}
         /\ req[r].status = 500
              => (FilePath(req[r].name) \notin Files \/ req[r].off < Len(req[r].content))
         /\ req[r].status = 200
              => /\ req[r].fname = req[r].name
                 /\ fs[FilePath(req[r].name)] = req[r].content

\* C5 witness: an upload with a disallowed extension and a content over
\* MAX_FILE_SIZE is answered 200 and stored.
C5_Witness ==
  /\ DoneUpload(1) /\ req[1].status = 200
  /\ ExtOf(req[1].name) \notin ALLOWED_EXTENSIONS
  /\ Len(req[1].content) > MAX_FILE_SIZE
  /\ fs[Cwd \o UPLOAD_DIR \o req[1].name] = req[1].content

\* C6: a download of ../main.py answers 200 with the bytes of the file
\* main.py of the working directory, which is not under uploads/.
C6_Traversal ==
  DoneDownload(1, Outside)
    => /\ req[1].status = 200
       /\ req[1].body = fs[Cwd \o <<"main.py">>]
       /\ ~InStorage(Cwd \o <<"main.py">>)

\* C6 witness: such a download has returned the outside file's bytes.
C6_Witness ==
  /\ DoneDownload(1, Outside) /\ req[1].status = 200
  /\ req[1].body = MainPy /\ req[1].name[1] = ".."

\* C7: while an upload is the only one that has had its file open since its
\* own open, the file holds exactly the bytes it has written so far: with no
\* interleaving, the last writer's content is what is stored.
C7_LastWriterAlone ==
  \A r \in Req :
    (req[r].kind = "upload" /\ req[r].pc = "copy" /\ req[r].solo)
      => fs[FilePath(req[r].name)] = SubSeq(req[r].content, 1, req[r].off)

\* C7 witness: two uploads of the same name with different non-empty
\* contents, both answered 200, and the file holds neither content but bytes
\* of both.
C7_Witness ==
  \E r, o \in Req :
    /\ r # o /\ DoneUpload(r) /\ DoneUpload(o)
    /\ req[r].status = 200 /\ req[o].status = 200
    /\ req[r].name = Tracked /\ req[o].name = Tracked
    /\ req[r].content # << >> /\ req[o].content # << >>
    /\ fs[TrackedFile] # req[r].content /\ fs[TrackedFile] # req[o].content
    /\ \E i, j \in DOMAIN fs[TrackedFile] :
         /\ fs[TrackedFile][i] = req[r].content[1]
         /\ fs[TrackedFile][j] = req[o].content[1]
         /\ fs[TrackedFile][i] # fs[TrackedFile][j]

\* C8: when the last upload of Tracked failed after its open and no upload
\* has opened the file since, the file holds a strict prefix of that upload's
\* content, and a download of Tracked answers 200 with exactly that prefix.
C8_NoRollback ==
  (ups # << >> /\ Last(ups).status = 500 /\ ~touched /\ req[1].kind # "upload")
    => /\ StrictPrefix(fs[TrackedFile], Last(ups).content)
       /\ DoneDownload(1, Tracked)
            => (req[1].status = 200 /\ req[1].body = fs[TrackedFile])

\* C8 witness: after a completed upload X1 and a failed one, a download
\* returned a non-empty truncated content that is not X1.
C8_Witness ==
  /\ DoneDownload(1, Tracked) /\ Len(ups) = 2 /\ ~touched
  /\ ups[1].status = 200 /\ ups[2].status = 500
  /\ req[1].status = 200 /\ req[1].body # << >>
  /\ req[1].body # ups[1].content
  /\ StrictPrefix(req[1].body, ups[2].content)

\* C9: a step of the form or download handler leaves every file as it is; a
\* step of an upload under a plain name leaves every file but
\* uploads/<name> as it is; no step removes a file.
C9_Frame ==
  [][/\ req[1].kind \in {"idle", "form", "download"} => fs' = fs
     /\ (req[1].kind = "upload" /\ req[1].name \in Plain)
          => \A p \in Files \ {Cwd \o UPLOAD_DIR \o req[1].name} : fs'[p] = fs[p]
     /\ \A p \in Files : fs[p] # NoFile => fs'[p] # NoFile]_vars

\* C9 witness: an upload under one plain name is complete while the other
\* plain name is stored with another content.
C9_Witness ==
  /\ DoneUpload(1) /\ req[1].status = 200 /\ req[1].name = <<"b.exe">>
  /\ fs[TrackedFile] # NoFile
  /\ fs[TrackedFile] # fs[Cwd \o UPLOAD_DIR \o <<"b.exe">>]

\* C10: a download during which no upload had its file open returns exactly
\* the content the file had at its stat, with that length announced.
C10_IsolatedAlone ==
  \A r \in Req :
    (req[r].kind = "download" /\ req[r].pc = "done" /\ req[r].status = 200
       /\ req[r].solo)
      => (req[r].body = req[r].snap /\ req[r].size = Len(req[r].body))

\* C10 witness: a download overlapped by one upload, which itself met no
\* other upload, has returned with the announced length bytes that are
\* neither the content at its stat nor the uploaded content, but a mix.
C10_Witness ==
  \E r, u \in Req :
    /\ DoneDownload(r, Tracked) /\ req[r].status = 200 /\ ~req[r].solo
    /\ req[r].size = Len(req[r].body)
    /\ req[r].body # req[r].snap
    /\ Mixed(req[r].body)
    /\ req[u].kind = "upload" /\ req[u].name = Tracked /\ req[u].solo
    /\ req[u].pc \in {"copy", "done"}
    /\ req[u].content # req[r].body

====
